---- MODULE Spec2Model ----
(***************************************************************************)
(* Byte-level model of the r1cs-file and wtns-file codecs.                 *)
(*                                                                         *)
(* A byte stream is a sequence of numbers 0..255.  A u32 is a number; a    *)
(* u64 is kept as its two little-endian 32-bit halves [lo, hi], because    *)
(* the model checker's integers are 32 bits wide.  Every byte the model    *)
(* produces is below 128, so a decoded u32 is always below 2^31.           *)
(*                                                                         *)
(* A reader result is [ok |-> TRUE, val, pos] or [ok |-> FALSE, err, pos]; *)
(* pos counts the bytes consumed by the reads that succeeded.              *)
(***************************************************************************)
EXTENDS Integers, Sequences, FiniteSets, TLC

\* ------------------------------------------------------------------ bounds
FS == 2                 \* field element width in bytes (const generic FS)
MaxConstraints == 2     \* longest constraint list a caller builds
MaxWitness == 2         \* longest witness vector a caller builds

\* --------------------------------------------------------------- constants
R1csMagic == <<114, 49, 99, 115>>       \* b"r1cs"
WtnsMagic == <<119, 116, 110, 115>>     \* b"wtns"
VERSION == 1
R1csNumSections == 3
WtnsMaxVersion == 2
WtnsNumSections == 2

\* ------------------------------------------------------- integers on wire
Min(a, b) == IF a <= b THEN a ELSE b

Pow256(i) == CASE i = 0 -> 1 [] i = 1 -> 256 [] i = 2 -> 65536 [] i = 3 -> 16777216

\* write_u32::<LittleEndian>
WriteU32(n) == [i \in 1..4 |-> (n \div Pow256(i - 1)) % 256]

\* the u64 n < 2^32
U64(n) == [lo |-> n, hi |-> 0]

\* write_u64::<LittleEndian>
WriteU64(v) == WriteU32(v.lo) \o WriteU32(v.hi)

\* LittleEndian::read_u32 of the 4 bytes after position p
DecodeU32(s, p) == s[p + 1] + 256 * s[p + 2] + 65536 * s[p + 3] + 16777216 * s[p + 4]

Ok(v, p) == [ok |-> TRUE, val |-> v, pos |-> p]
Err(e, p) == [ok |-> FALSE, err |-> e, pos |-> p]

\* read_exact of n bytes
ReadExact(s, p, n) ==
    IF p + n > Len(s) THEN Err("UnexpectedEof", p)
    ELSE Ok(SubSeq(s, p + 1, p + n), p + n)

\* read_u32::<LittleEndian>
ReadU32(s, p) ==
    IF p + 4 > Len(s) THEN Err("UnexpectedEof", p)
    ELSE Ok(DecodeU32(s, p), p + 4)

\* read_u64::<LittleEndian>
ReadU64(s, p) ==
    IF p + 8 > Len(s) THEN Err("UnexpectedEof", p)
    ELSE Ok([lo |-> DecodeU32(s, p), hi |-> DecodeU32(s, p + 4)], p + 8)

\* FieldElement::read / FieldElement::write
FieldElementRead(s, p) == ReadExact(s, p, FS)
FieldElementWrite(f) == f

\* ----------------------------------------------------------- r1cs: write
\* enum SectionType (r1cs-file), `as u32`
R1csSectionTypeAsU32(ty) ==
    CASE ty = "Header" -> 1 [] ty = "Constraint" -> 2 [] ty = "Wire2LabelIdMap" -> 3

\* SectionHeader::write
SectionHeaderWrite(ty, size) == WriteU32(R1csSectionTypeAsU32(ty)) \o WriteU64(size)

\* Header::write
R1csHeaderWrite(h) ==
    SectionHeaderWrite("Header", U64(6 * 4 + 8 + FS))
        \o WriteU32(FS) \o FieldElementWrite(h.prime)
        \o WriteU32(h.n_wires) \o WriteU32(h.n_pub_out) \o WriteU32(h.n_pub_in)
        \o WriteU32(h.n_prvt_in) \o WriteU64(h.n_labels) \o WriteU32(h.n_constraints)

RECURSIVE FactorsWrite(_)
FactorsWrite(comb) ==
    IF comb = <<>> THEN <<>>
    ELSE WriteU32(Head(comb).index) \o FieldElementWrite(Head(comb).factor)
            \o FactorsWrite(Tail(comb))

\* the closure `write` of Constraint::write
CombinationWrite(comb) == WriteU32(Len(comb)) \o FactorsWrite(comb)

\* Constraint::write
ConstraintWrite(c) == CombinationWrite(c[1]) \o CombinationWrite(c[2]) \o CombinationWrite(c[3])

RECURSIVE SumLen(_)
SumLen(comb) == IF comb = <<>> THEN 0 ELSE Len(Head(comb).factor) + SumLen(Tail(comb))

\* the three count words of a constraint left out of its size
ConstraintSizeEntries(c) ==
    (SumLen(c[1]) + Len(c[1]) * 4) + (SumLen(c[2]) + Len(c[2]) * 4)
        + (SumLen(c[3]) + Len(c[3]) * 4)

\* Constraint::size
ConstraintSize(c) ==
    (SumLen(c[1]) + Len(c[1]) * 4) + (SumLen(c[2]) + Len(c[2]) * 4)
        + (SumLen(c[3]) + Len(c[3]) * 4) + 3 * 4

RECURSIVE ConstraintsSize(_)
ConstraintsSize(cs) == IF cs = <<>> THEN 0 ELSE ConstraintSize(Head(cs)) + ConstraintsSize(Tail(cs))

RECURSIVE ConstraintsBody(_)
ConstraintsBody(cs) == IF cs = <<>> THEN <<>> ELSE ConstraintWrite(Head(cs)) \o ConstraintsBody(Tail(cs))

\* Constraints::write
ConstraintsWrite(cs) ==
    SectionHeaderWrite("Constraint", U64(ConstraintsSize(cs))) \o ConstraintsBody(cs)

RECURSIVE LabelsWrite(_)
LabelsWrite(m) == IF m = <<>> THEN <<>> ELSE WriteU64(Head(m)) \o LabelsWrite(Tail(m))

\* WireMap::write
WireMapWrite(m) ==
    SectionHeaderWrite("Wire2LabelIdMap", U64(Len(m) * 8)) \o LabelsWrite(m)

\* the magic, version and section count written by R1csFile::write
R1csPreamble == R1csMagic \o WriteU32(VERSION) \o WriteU32(R1csNumSections)

\* R1csFile::write
R1csWrite(d) ==
    R1csPreamble \o R1csHeaderWrite(d.header) \o ConstraintsWrite(d.constraints)
        \o WireMapWrite(d.map)

\* ------------------------------------------------------------ r1cs: read
\* the `?` operator: an Err result is returned at once, an Ok result is
\* bound (as a value, evaluated once) and the function goes on
Try(r, Rest(_)) == CHOOSE res \in { IF x.ok THEN Rest(x) ELSE x : x \in {r} } : TRUE

\* SectionType::read (r1cs-file)
R1csSectionTypeRead(s, p) ==
    Try(ReadU32(s, p), LAMBDA num :
    Ok(CASE num.val = 1 -> "Header"
         [] num.val = 2 -> "Constraint"
         [] num.val = 3 -> "Wire2LabelIdMap"
         [] OTHER -> "Unknown", num.pos))

\* the content of an unknown section left in the stream
SkipLenNone(size, remaining) == 0

\* io::copy(&mut r.take(size), &mut sink()): the bytes it consumes
SkipLen(size, remaining) == IF size.hi > 0 THEN remaining ELSE Min(size.lo, remaining)

\* one unknown section skipped and the record after it returned as it is
SectionHeaderReadOnce(s, p) ==
    Try(R1csSectionTypeRead(s, p), LAMBDA ty :
    Try(ReadU64(s, ty.pos), LAMBDA size :
    IF ty.val = "Unknown"
    THEN Try(R1csSectionTypeRead(s, size.pos + SkipLen(size.val, Len(s) - size.pos)),
             LAMBDA ty2 :
         Try(ReadU64(s, ty2.pos), LAMBDA size2 :
         Ok([ty |-> ty2.val, size |-> size2.val], size2.pos)))
    ELSE Ok([ty |-> ty.val, size |-> size.val], size.pos)))

\* SectionHeader::read
RECURSIVE SectionHeaderRead(_, _)
SectionHeaderRead(s, p) ==
    Try(R1csSectionTypeRead(s, p), LAMBDA ty :
    Try(ReadU64(s, ty.pos), LAMBDA size :
    IF ty.val = "Unknown"
    THEN SectionHeaderRead(s, size.pos + SkipLen(size.val, Len(s) - size.pos))
    ELSE Ok([ty |-> ty.val, size |-> size.val], size.pos)))

\* Header::read (r1cs-file)
R1csHeaderRead(s, p) ==
    Try(SectionHeaderRead(s, p), LAMBDA section :
    Try(ReadU32(s, section.pos), LAMBDA field_size :
    IF field_size.val # FS THEN Err("WrongFieldSize", field_size.pos) ELSE
    Try(FieldElementRead(s, field_size.pos), LAMBDA prime :
    Try(ReadU32(s, prime.pos), LAMBDA n_wires :
    Try(ReadU32(s, n_wires.pos), LAMBDA n_pub_out :
    Try(ReadU32(s, n_pub_out.pos), LAMBDA n_pub_in :
    Try(ReadU32(s, n_pub_in.pos), LAMBDA n_prvt_in :
    Try(ReadU64(s, n_prvt_in.pos), LAMBDA n_labels :
    Try(ReadU32(s, n_labels.pos), LAMBDA n_constraints :
    Ok([prime |-> prime.val, n_wires |-> n_wires.val, n_pub_out |-> n_pub_out.val,
        n_pub_in |-> n_pub_in.val, n_prvt_in |-> n_prvt_in.val,
        n_labels |-> n_labels.val, n_constraints |-> n_constraints.val],
       n_constraints.pos))))))))))

\* an index-keyed combination: a repeated wire index replaces the earlier entry
MergeFactor(fs, e) ==
    IF \E i \in DOMAIN fs : fs[i].index = e.index
    THEN [i \in DOMAIN fs |-> IF fs[i].index = e.index THEN e ELSE fs[i]]
    ELSE Append(fs, e)

RECURSIVE ReadFactorsMerged(_, _, _)
ReadFactorsMerged(s, n, acc) ==
    IF n = 0 THEN acc ELSE
    Try(ReadU32(s, acc.pos), LAMBDA index :
    Try(FieldElementRead(s, index.pos), LAMBDA factor :
    Try(Ok(MergeFactor(acc.val, [factor |-> factor.val, index |-> index.val]), factor.pos),
        LAMBDA pushed : ReadFactorsMerged(s, n - 1, pushed))))

\* the loop of Constraint::read_combination; acc is the Ok of the factors
\* pushed so far, at the position reached
RECURSIVE ReadFactors(_, _, _)
ReadFactors(s, n, acc) ==
    IF n = 0 THEN acc ELSE
    Try(ReadU32(s, acc.pos), LAMBDA index :
    Try(FieldElementRead(s, index.pos), LAMBDA factor :
    Try(Ok(Append(acc.val, [factor |-> factor.val, index |-> index.val]), factor.pos),
        LAMBDA pushed : ReadFactors(s, n - 1, pushed))))

\* Constraint::read_combination
ReadCombination(s, p) ==
    Try(ReadU32(s, p), LAMBDA n : ReadFactors(s, n.val, Ok(<<>>, n.pos)))

\* Constraint::read
ConstraintRead(s, p) ==
    Try(ReadCombination(s, p), LAMBDA a :
    Try(ReadCombination(s, a.pos), LAMBDA b :
    Try(ReadCombination(s, b.pos), LAMBDA c :
    Ok(<<a.val, b.val, c.val>>, c.pos))))

\* the loop of Constraints::read; acc is the Ok of the constraints pushed so far
RECURSIVE ReadConstraintList(_, _, _)
ReadConstraintList(s, n, acc) ==
    IF n = 0 THEN acc ELSE
    Try(ConstraintRead(s, acc.pos), LAMBDA c :
    Try(Ok(Append(acc.val, c.val), c.pos),
        LAMBDA pushed : ReadConstraintList(s, n - 1, pushed)))

\* the declared length trusted: an empty section holds no constraints
ConstraintsReadSized(s, p, n_constraints) ==
    Try(SectionHeaderRead(s, p), LAMBDA section :
    ReadConstraintList(s, IF section.val.size = U64(0) THEN 0 ELSE n_constraints,
                       Ok(<<>>, section.pos)))

\* Constraints::read
ConstraintsRead(s, p, n_constraints) ==
    Try(SectionHeaderRead(s, p), LAMBDA section :
    ReadConstraintList(s, n_constraints, Ok(<<>>, section.pos)))

\* section.size / 8 in WireMap::read.  A size of 2^32 or more gives a count
\* of at least 2^29, kept as 2^29: more labels than any stream here holds,
\* so the loop ends in UnexpectedEof either way.
NumLabels(size) ==
    IF size.hi = 0 THEN size.lo \div 8 ELSE 512 * 1048576

\* a short stream taken as the end of the labels
RECURSIVE ReadLabelsLenient(_, _, _)
ReadLabelsLenient(s, n, acc) ==
    IF n = 0 \/ acc.pos + 8 > Len(s) THEN acc ELSE
    Try(ReadU64(s, acc.pos), LAMBDA id :
    Try(Ok(Append(acc.val, id.val), id.pos),
        LAMBDA pushed : ReadLabelsLenient(s, n - 1, pushed)))

\* the loop of WireMap::read; acc is the Ok of the labels pushed so far
RECURSIVE ReadLabels(_, _, _)
ReadLabels(s, n, acc) ==
    IF n = 0 THEN acc ELSE
    Try(ReadU64(s, acc.pos), LAMBDA id :
    Try(Ok(Append(acc.val, id.val), id.pos),
        LAMBDA pushed : ReadLabels(s, n - 1, pushed)))

\* WireMap::read
WireMapRead(s, p) ==
    Try(SectionHeaderRead(s, p), LAMBDA section :
    ReadLabels(s, NumLabels(section.val.size), Ok(<<>>, section.pos)))

\* the section count taken as a limit, as the wtns reader takes it
R1csReadCounted(s) ==
    Try(ReadExact(s, 0, 4), LAMBDA magic :
    IF magic.val # R1csMagic THEN Err("InvalidMagic", magic.pos) ELSE
    Try(ReadU32(s, magic.pos), LAMBDA version :
    IF version.val # VERSION THEN Err("UnsupportedVersion", version.pos) ELSE
    Try(ReadU32(s, version.pos), LAMBDA num_sections :
    IF num_sections.val > 3 THEN Err("TooManySections", num_sections.pos) ELSE
    Try(R1csHeaderRead(s, num_sections.pos), LAMBDA header :
    Try(ConstraintsRead(s, header.pos, header.val.n_constraints), LAMBDA constraints :
    Try(WireMapRead(s, constraints.pos), LAMBDA map :
    Ok([header |-> header.val, constraints |-> constraints.val, map |-> map.val],
       map.pos)))))))

\* R1csFile::read
R1csRead(s) ==
    Try(ReadExact(s, 0, 4), LAMBDA magic :
    IF magic.val # R1csMagic THEN Err("InvalidMagic", magic.pos) ELSE
    Try(ReadU32(s, magic.pos), LAMBDA version :
    IF version.val # VERSION THEN Err("UnsupportedVersion", version.pos) ELSE
    Try(ReadU32(s, version.pos), LAMBDA num_sections :
    Try(R1csHeaderRead(s, num_sections.pos), LAMBDA header :
    Try(ConstraintsRead(s, header.pos, header.val.n_constraints), LAMBDA constraints :
    Try(WireMapRead(s, constraints.pos), LAMBDA map :
    Ok([header |-> header.val, constraints |-> constraints.val, map |-> map.val],
       map.pos)))))))

\* ----------------------------------------------------------- wtns: write
\* enum SectionType (wtns-file), `as u32`
WtnsSectionTypeAsU32(ty) == CASE ty = "Header" -> 1 [] ty = "Witness" -> 2

\* SectionType::write (wtns-file)
WtnsSectionTypeWrite(ty) == WriteU32(WtnsSectionTypeAsU32(ty))

\* Header::write (wtns-file)
WtnsHeaderWrite(h) ==
    WtnsSectionTypeWrite("Header") \o WriteU64(U64(4 + FS + 4))
        \o WriteU32(FS) \o FieldElementWrite(h.prime) \o WriteU32(h.witness_len)

RECURSIVE ElementsWrite(_)
ElementsWrite(w) == IF w = <<>> THEN <<>> ELSE FieldElementWrite(Head(w)) \o ElementsWrite(Tail(w))

\* the section size taken as the element count
WitnessWriteCount(w) ==
    WtnsSectionTypeWrite("Witness") \o WriteU64(U64(Len(w))) \o ElementsWrite(w)

\* Witness::write
WitnessWrite(w) ==
    WtnsSectionTypeWrite("Witness") \o WriteU64(U64(Len(w) * FS)) \o ElementsWrite(w)

\* WtnsFile::write
WtnsWrite(d) ==
    WtnsMagic \o WriteU32(d.version) \o WriteU32(WtnsNumSections)
        \o WtnsHeaderWrite(d.header) \o WitnessWrite(d.witness)

\* WtnsFile::from_vec
FromVecDoc(witness, prime) ==
    [version |-> 1,
     header |-> [field_size |-> FS, prime |-> prime, witness_len |-> Len(witness)],
     witness |-> witness]

\* ------------------------------------------------------------ wtns: read
\* SectionType::read (wtns-file)
WtnsSectionTypeRead(s, p) ==
    Try(ReadU32(s, p), LAMBDA num :
    Ok(CASE num.val = 1 -> "Header"
         [] num.val = 2 -> "Witness"
         [] OTHER -> "Unknown", num.pos))

\* Header::read (wtns-file)
WtnsHeaderRead(s, p) ==
    Try(WtnsSectionTypeRead(s, p), LAMBDA sec_type :
    IF sec_type.val # "Header" THEN Err("ExpectedHeader", sec_type.pos) ELSE
    Try(ReadU64(s, sec_type.pos), LAMBDA sec_size :
    IF sec_size.val # U64(4 + FS + 4) THEN Err("InvalidHeaderSectionSize", sec_size.pos) ELSE
    Try(ReadU32(s, sec_size.pos), LAMBDA field_size :
    Try(FieldElementRead(s, field_size.pos), LAMBDA prime :
    IF field_size.val # FS THEN Err("WrongFieldSize", prime.pos) ELSE
    Try(ReadU32(s, prime.pos), LAMBDA witness_len :
    Ok([field_size |-> field_size.val, prime |-> prime.val, witness_len |-> witness_len.val],
       witness_len.pos))))))

\* the loop of Witness::read; acc is the Ok of the elements pushed so far
RECURSIVE ReadElements(_, _, _)
ReadElements(s, n, acc) ==
    IF n = 0 THEN acc ELSE
    Try(FieldElementRead(s, acc.pos), LAMBDA e :
    Try(Ok(Append(acc.val, e.val), e.pos),
        LAMBDA pushed : ReadElements(s, n - 1, pushed)))

\* the declared length not compared with witness_len * FS
WitnessReadUnsized(s, p, header) ==
    Try(WtnsSectionTypeRead(s, p), LAMBDA sec_type :
    IF sec_type.val # "Witness" THEN Err("ExpectedWitness", sec_type.pos) ELSE
    Try(ReadU64(s, sec_type.pos), LAMBDA sec_size :
    ReadElements(s, header.witness_len, Ok(<<>>, sec_size.pos))))

\* the section type not looked at
WitnessReadUntyped(s, p, header) ==
    Try(WtnsSectionTypeRead(s, p), LAMBDA sec_type :
    Try(ReadU64(s, sec_type.pos), LAMBDA sec_size :
    IF sec_size.val # U64(header.witness_len * FS)
    THEN Err("InvalidWitnessSectionSize", sec_size.pos) ELSE
    ReadElements(s, header.witness_len, Ok(<<>>, sec_size.pos))))

\* Witness::read
WitnessRead(s, p, header) ==
    Try(WtnsSectionTypeRead(s, p), LAMBDA sec_type :
    IF sec_type.val # "Witness" THEN Err("ExpectedWitness", sec_type.pos) ELSE
    Try(ReadU64(s, sec_type.pos), LAMBDA sec_size :
    IF sec_size.val # U64(header.witness_len * FS)
    THEN Err("InvalidWitnessSectionSize", sec_size.pos) ELSE
    ReadElements(s, header.witness_len, Ok(<<>>, sec_size.pos))))

\* the exact-match version test of the r1cs reader
WtnsReadExactVersion(s) ==
    Try(ReadExact(s, 0, 4), LAMBDA magic :
    IF magic.val # WtnsMagic THEN Err("InvalidMagic", magic.pos) ELSE
    Try(ReadU32(s, magic.pos), LAMBDA version :
    IF version.val # VERSION THEN Err("UnsupportedVersion", version.pos) ELSE
    Try(ReadU32(s, version.pos), LAMBDA num_sections :
    IF num_sections.val > 2 THEN Err("TooManySections", num_sections.pos) ELSE
    Try(WtnsHeaderRead(s, num_sections.pos), LAMBDA header :
    Try(WitnessRead(s, header.pos, header.val), LAMBDA witness :
    Ok([version |-> version.val, header |-> header.val, witness |-> witness.val],
       witness.pos))))))

\* the section count looked at only once the Header section is read
WtnsReadLateCount(s) ==
    Try(ReadExact(s, 0, 4), LAMBDA magic :
    IF magic.val # WtnsMagic THEN Err("InvalidMagic", magic.pos) ELSE
    Try(ReadU32(s, magic.pos), LAMBDA version :
    IF version.val > WtnsMaxVersion THEN Err("UnsupportedVersion", version.pos) ELSE
    Try(ReadU32(s, version.pos), LAMBDA num_sections :
    Try(WtnsHeaderRead(s, num_sections.pos), LAMBDA header :
    IF num_sections.val > 2 THEN Err("TooManySections", num_sections.pos) ELSE
    Try(WitnessRead(s, header.pos, header.val), LAMBDA witness :
    Ok([version |-> version.val, header |-> header.val, witness |-> witness.val],
       witness.pos))))))

\* WtnsFile::read
WtnsRead(s) ==
    Try(ReadExact(s, 0, 4), LAMBDA magic :
    IF magic.val # WtnsMagic THEN Err("InvalidMagic", magic.pos) ELSE
    Try(ReadU32(s, magic.pos), LAMBDA version :
    IF version.val > WtnsMaxVersion THEN Err("UnsupportedVersion", version.pos) ELSE
    Try(ReadU32(s, version.pos), LAMBDA num_sections :
    IF num_sections.val > 2 THEN Err("TooManySections", num_sections.pos) ELSE
    Try(WtnsHeaderRead(s, num_sections.pos), LAMBDA header :
    Try(WitnessRead(s, header.pos, header.val), LAMBDA witness :
    Ok([version |-> version.val, header |-> header.val, witness |-> witness.val],
       witness.pos))))))

\* ------------------------------------------------- documents of a caller
\* FieldElement::from([b, 0, ..])
Fe(b) == [i \in 1..FS |-> IF i = 1 THEN b ELSE 0]

\* the i-th constraint a caller builds: wire indices unsorted and repeated
ConstraintOf(i) ==
    IF i = 1
    THEN << <<[factor |-> Fe(3), index |-> 5], [factor |-> Fe(1), index |-> 2]>>,
            <<[factor |-> Fe(6), index |-> 0]>>,
            <<>> >>
    ELSE << <<>>,
            <<[factor |-> Fe(i), index |-> i]>>,
            <<[factor |-> Fe(1), index |-> 1], [factor |-> Fe(2), index |-> 1]>> >>

\* struct R1csFile built field by field (all fields are pub)
R1csDoc(k, n_constraints, m, n_wires) ==
    [header |-> [prime |-> Fe(7), n_wires |-> n_wires, n_pub_out |-> 1, n_pub_in |-> 2,
                 n_prvt_in |-> 3, n_labels |-> [lo |-> 5, hi |-> 1],
                 n_constraints |-> n_constraints],
     constraints |-> [i \in 1..k |-> ConstraintOf(i)],
     map |-> [i \in 1..m |-> [lo |-> i + 2, hi |-> i - 1]]]

R1csDocs ==
    { R1csDoc(k, n, m, w) :
        k \in 0..MaxConstraints, n \in 0..MaxConstraints,
        m \in 0..MaxConstraints, w \in 0..MaxConstraints }

\* the documents whose counters agree with their vectors
R1csConsistent(d) ==
    /\ Len(d.constraints) = d.header.n_constraints
    /\ Len(d.map) = d.header.n_wires

\* the witness vectors a caller passes to from_vec
WitnessOf(k) == [i \in 1..k |-> Fe(i)]

\* struct WtnsFile built field by field (all fields are pub)
WtnsDocs ==
    { [version |-> v,
       header |-> [field_size |-> f, prime |-> Fe(7), witness_len |-> n],
       witness |-> WitnessOf(k)] :
        v \in 0..(WtnsMaxVersion + 1), f \in {FS, FS + 1},
        n \in 0..MaxWitness, k \in 0..MaxWitness }

\* ------------------------------------------------------------ the state
VARIABLES
    pc,         \* "new", "doc", "bytes", "read", "rewritten"
    kind,       \* "r1cs" or "wtns": which crate's codec is in use
    doc,        \* the document the caller built
    origin,     \* "none", "literal", "from_vec": how the caller built it
    data,       \* the byte stream handed to read
    marks,      \* offsets in data of the section records write emitted
    tamper,     \* "none", "once", "twice", "cut": what happened to data since write
    lastEdit,   \* the last change made to data
    prev,       \* data before the last change
    file,       \* the result of read
    out         \* the bytes write produced from the document read

vars == <<pc, kind, doc, origin, data, marks, tamper, lastEdit, prev, file, out>>

NotRead == [ok |-> FALSE, err |-> "NotRead", pos |-> 0]
NoEdit == [op |-> "None", at |-> 0, len |-> 0, val |-> 0]
NoDoc == [version |-> 0]

Init ==
    /\ pc = "new"
    /\ kind = "r1cs"
    /\ doc = NoDoc
    /\ origin = "none"
    /\ data = <<>>
    /\ marks = <<>>
    /\ tamper = "none"
    /\ lastEdit = NoEdit
    /\ prev = <<>>
    /\ file = NotRead
    /\ out = <<>>

\* ------------------------------------------- a caller builds a document
\* the R1csFile values a caller constructs: counters that agree with the
\* vectors, and the smallest ones that do not
R1csBuilt ==
    { d \in R1csDocs :
        \/ R1csConsistent(d) /\ Len(d.map) = Len(d.constraints)
        \/ Len(d.constraints) + d.header.n_constraints
              + Len(d.map) + d.header.n_wires = 1 }

Deviations(d) ==
    (IF d.version # 1 THEN 1 ELSE 0) + (IF d.header.field_size # FS THEN 1 ELSE 0)
        + (IF d.header.witness_len # Len(d.witness) THEN 1 ELSE 0)

\* the WtnsFile values a caller constructs without from_vec
WtnsBuilt == { d \in WtnsDocs : Len(d.witness) = 1 /\ Deviations(d) <= 1 }

NewR1cs ==
    /\ pc = "new"
    /\ origin' = "literal"
    /\ \E d \in R1csBuilt : doc' = d
    /\ kind' = "r1cs"
    /\ pc' = "doc"
    /\ UNCHANGED <<data, marks, tamper, lastEdit, prev, file, out>>

NewWtns ==
    /\ pc = "new"
    /\ origin' = "literal"
    /\ \E d \in WtnsBuilt : doc' = d
    /\ kind' = "wtns"
    /\ pc' = "doc"
    /\ UNCHANGED <<data, marks, tamper, lastEdit, prev, file, out>>

\* WtnsFile::from_vec
FromVec ==
    /\ pc = "new"
    /\ origin' = "from_vec"
    /\ \E k \in 0..MaxWitness : doc' = FromVecDoc(WitnessOf(k), Fe(7))
    /\ kind' = "wtns"
    /\ pc' = "doc"
    /\ UNCHANGED <<data, marks, tamper, lastEdit, prev, file, out>>

\* ------------------------------------------------------ write, then read
\* R1csFile::write into an empty Vec
R1csFileWrite ==
    /\ pc = "doc" /\ kind = "r1cs"
    /\ data' = R1csWrite(doc)
    /\ marks' = << Len(R1csPreamble),
                   Len(R1csPreamble) + Len(R1csHeaderWrite(doc.header)),
                   Len(R1csPreamble) + Len(R1csHeaderWrite(doc.header))
                       + Len(ConstraintsWrite(doc.constraints)) >>
    /\ pc' = "bytes"
    /\ UNCHANGED <<kind, doc, origin, tamper, lastEdit, prev, file, out>>

\* WtnsFile::write into an empty Vec
WtnsFileWrite ==
    /\ pc = "doc" /\ kind = "wtns"
    /\ data' = WtnsWrite(doc)
    /\ marks' = << 12, 12 + Len(WtnsHeaderWrite(doc.header)) >>
    /\ pc' = "bytes"
    /\ UNCHANGED <<kind, doc, origin, tamper, lastEdit, prev, file, out>>

\* R1csFile::read of the stream
R1csFileRead ==
    /\ pc = "bytes" /\ kind = "r1cs"
    /\ file' = R1csRead(data)
    /\ pc' = "read"
    /\ UNCHANGED <<kind, doc, origin, data, marks, tamper, lastEdit, prev, out>>

\* WtnsFile::read of the stream
WtnsFileRead ==
    /\ pc = "bytes" /\ kind = "wtns"
    /\ file' = WtnsRead(data)
    /\ pc' = "read"
    /\ UNCHANGED <<kind, doc, origin, data, marks, tamper, lastEdit, prev, out>>

\* tests::test_serialize: write the document that read returned
R1csReserialize ==
    /\ pc = "read" /\ kind = "r1cs" /\ file.ok
    /\ out' = R1csWrite(file.val)
    /\ pc' = "rewritten"
    /\ UNCHANGED <<kind, doc, origin, data, marks, tamper, lastEdit, prev, file>>

WtnsReserialize ==
    /\ pc = "read" /\ kind = "wtns" /\ file.ok
    /\ out' = WtnsWrite(file.val)
    /\ pc' = "rewritten"
    /\ UNCHANGED <<kind, doc, origin, data, marks, tamper, lastEdit, prev, file>>

\* ------------------------------- streams that write did not produce
Overwrite(s, p, bytes) ==
    [i \in 1..Len(s) |-> IF i > p /\ i <= p + Len(bytes) THEN bytes[i - p] ELSE s[i]]

InsertAt(s, p, bytes) == SubSeq(s, 1, p) \o bytes \o SubSeq(s, p + 1, Len(s))

NextTamper == IF tamper = "none" THEN "once" ELSE "twice"

\* a change of data that keeps its length
Patch(op, at, bytes, val) ==
    /\ pc = "bytes" /\ tamper \in {"none", "once"}
    /\ at + Len(bytes) <= Len(data)
    /\ data' = Overwrite(data, at, bytes)
    /\ prev' = data
    /\ lastEdit' = [op |-> op, at |-> at, len |-> 0, val |-> val]
    /\ tamper' = NextTamper
    /\ UNCHANGED <<pc, kind, doc, origin, marks, file, out>>

OtherMagic == IF kind = "r1cs" THEN WtnsMagic ELSE R1csMagic
WrittenSections == IF kind = "r1cs" THEN R1csNumSections ELSE WtnsNumSections
VersionChoices == 0..(WtnsMaxVersion + 1)
SizeChoices == {0, 12, 1030}
TagChoices == 0..3

SetMagic == tamper = "none" /\ Patch("SetMagic", 0, OtherMagic, 0)

SetVersion ==
    /\ tamper = "none"
    /\ \E v \in VersionChoices : Patch("SetVersion", 4, WriteU32(v), v)

SetSectionCount ==
    \E n \in {WrittenSections - 1, WrittenSections + 1} :
        Patch("SetSectionCount", 8, WriteU32(n), n)

SetTag ==
    /\ tamper = "none"
    /\ \E i \in DOMAIN marks, t \in TagChoices : Patch("SetTag", marks[i], WriteU32(t), t)

SetSize ==
    \E i \in DOMAIN marks, n \in SizeChoices :
        Patch("SetSize", marks[i] + 4, WriteU64(U64(n)), n)

SetFieldSize ==
    /\ tamper = "none"
    /\ Patch("SetFieldSize", marks[1] + 12, WriteU32(FS + 1), FS + 1)

\* the tags neither crate recognises
UnknownTags == {0, 4}
Payload == <<1, 0, 0, 0, 9>>
Records ==
    { [tag |-> 0, size |-> 0, content |-> <<>>],
      [tag |-> 4, size |-> Len(Payload), content |-> Payload],
      [tag |-> 0, size |-> 1030, content |-> <<>>] }

RecordBytes(r) == WriteU32(r.tag) \o WriteU64(U64(r.size)) \o r.content

\* a section record of an unknown type put right before a written section
Inject ==
    /\ pc = "bytes" /\ tamper \in {"none", "once"}
    /\ \E i \in DOMAIN marks, r \in Records :
        /\ marks[i] <= Len(data)
        /\ data' = InsertAt(data, marks[i], RecordBytes(r))
        /\ marks' = [j \in DOMAIN marks |->
                        IF j >= i THEN marks[j] + Len(RecordBytes(r)) ELSE marks[j]]
        /\ lastEdit' = [op |-> IF r.size = Len(r.content) THEN "Inject" ELSE "InjectLong",
                        at |-> marks[i], len |-> Len(RecordBytes(r)), val |-> r.tag]
    /\ prev' = data
    /\ tamper' = NextTamper
    /\ UNCHANGED <<pc, kind, doc, origin, file, out>>

\* bytes after the last section
AppendByte ==
    /\ pc = "bytes" /\ tamper = "none"
    /\ data' = Append(data, 0)
    /\ prev' = data
    /\ lastEdit' = [op |-> "AppendByte", at |-> Len(data), len |-> 1, val |-> 0]
    /\ tamper' = NextTamper
    /\ UNCHANGED <<pc, kind, doc, origin, marks, file, out>>

\* a stream that ends right after the word changed last
CutAfterEdit ==
    /\ pc = "bytes" /\ tamper = "once"
    /\ lastEdit.op \in {"SetVersion", "SetSectionCount", "SetTag", "SetSize", "SetFieldSize"}
    /\ LET n == lastEdit.at + (IF lastEdit.op = "SetSize" THEN 8 ELSE 4) IN
        /\ n < Len(data)
        /\ data' = SubSeq(data, 1, n)
        /\ lastEdit' = [op |-> "CutAfterEdit", at |-> n, len |-> 0, val |-> 0]
    /\ prev' = data
    /\ tamper' = "cut"
    /\ UNCHANGED <<pc, kind, doc, origin, marks, file, out>>

\* a stream that ends early: any strict prefix of what write produced
Truncate ==
    /\ pc = "bytes" /\ tamper = "none"
    /\ \E n \in 0..(Len(data) - 1) :
        /\ data' = SubSeq(data, 1, n)
        /\ lastEdit' = [op |-> "Truncate", at |-> n, len |-> 0, val |-> 0]
    /\ prev' = data
    /\ tamper' = "cut"
    /\ UNCHANGED <<pc, kind, doc, origin, marks, file, out>>

Next ==
    \/ NewR1cs \/ NewWtns \/ FromVec
    \/ R1csFileWrite \/ WtnsFileWrite
    \/ R1csFileRead \/ WtnsFileRead
    \/ R1csReserialize \/ WtnsReserialize
    \/ SetMagic \/ SetVersion \/ SetSectionCount \/ SetTag \/ SetSize \/ SetFieldSize
    \/ Inject \/ AppendByte \/ Truncate \/ CutAfterEdit

Spec == Init /\ [][Next]_vars

\* ================================================================ claims
HasRead == pc \in {"read", "rewritten"}

\* C1 as stated: whenever R1csFile::read succeeds on a byte sequence, writing
\* the document it returned gives back that byte sequence, same length and
\* same content.
C1_RoundTripAnyInput ==
    (kind = "r1cs" /\ pc = "rewritten") => (Len(out) = Len(data) /\ out = data)

\* C1 amended: the byte-exact round trip holds for the streams R1csFile::write
\* produces from a document whose constraint vector is n_constraints long:
\* read succeeds on them and writing its result reproduces them.
C1_RoundTripWritten ==
    (kind = "r1cs" /\ HasRead /\ tamper = "none"
        /\ Len(doc.constraints) = doc.header.n_constraints)
    => /\ file.ok
       /\ pc = "rewritten" => (Len(out) = Len(data) /\ out = data)

C1_Witness ==
    /\ kind = "r1cs" /\ pc = "rewritten" /\ tamper = "none"
    /\ doc.header.n_constraints = Len(doc.constraints)
    /\ Len(doc.constraints) >= 2
    /\ out = data

\* C2: a document made by WtnsFile::from_vec has version 1, field_size FS and
\* witness_len equal to the vector's length, and reading what write produces
\* from it succeeds and returns an equal document.
C2_FromVecRoundTrip ==
    (kind = "wtns" /\ origin = "from_vec")
    => /\ doc.version = 1
       /\ doc.header.field_size = FS
       /\ doc.header.witness_len = Len(doc.witness)
       /\ (HasRead /\ tamper = "none") => (file.ok /\ file.val = doc)

C2_Witness ==
    /\ kind = "wtns" /\ origin = "from_vec" /\ pc = "read" /\ tamper = "none"
    /\ Len(doc.witness) >= 2
    /\ file.ok /\ file.val = doc

\* the offsets at which R1csFile::read finds the section records it decodes
\* as Header, Constraints and WireMap
R1csSectionStarts(s) ==
    Try(SectionHeaderRead(s, Len(R1csPreamble)), LAMBDA hsec :
    Try(R1csHeaderRead(s, Len(R1csPreamble)), LAMBDA header :
    Try(SectionHeaderRead(s, header.pos), LAMBDA csec :
    Try(ConstraintsRead(s, header.pos, header.val.n_constraints), LAMBDA constraints :
    Try(SectionHeaderRead(s, constraints.pos), LAMBDA msec :
    Ok(<<hsec.pos - 12, csec.pos - 12, msec.pos - 12>>, msec.pos))))))

\* C3: a section record of an unrecognised type, with its declared length of
\* content, inserted right before the Header, Constraints or WireMap section
\* of an input that R1csFile::read accepts, does not change the document read.
C3_UnknownSectionSkipped ==
    (kind = "r1cs" /\ pc = "read" /\ lastEdit.op = "Inject")
    => \A base \in {R1csRead(prev)}, starts \in {R1csSectionStarts(prev)} :
          (base.ok /\ starts.ok /\ \E i \in 1..3 : starts.val[i] = lastEdit.at)
          => (file.ok /\ file.val = base.val)

C3_Witness ==
    /\ kind = "r1cs" /\ pc = "read" /\ tamper = "twice"
    /\ lastEdit.op = "Inject" /\ lastEdit.val = 4 /\ lastEdit.at = marks[2] - lastEdit.len
    /\ R1csRead(prev).ok
    /\ file.ok /\ Len(file.val.constraints) >= 1

ConstraintsSizeAt(s) ==
    Try(R1csHeaderRead(s, Len(R1csPreamble)), LAMBDA header :
    Try(SectionHeaderRead(s, header.pos), LAMBDA csec : Ok(csec.pos - 8, csec.pos)))

\* C6: R1csFile::read decodes exactly n_constraints constraints, each of three
\* combinations, in file order and with the pairs of a combination in their
\* order on the wire; the declared length of the Constraints section changes
\* neither the document nor the error.
C6_ConstraintsByCount ==
    (kind = "r1cs" /\ pc = "read")
    => /\ file.ok =>
            /\ Len(file.val.constraints) = file.val.header.n_constraints
            /\ \A i \in DOMAIN file.val.constraints : Len(file.val.constraints[i]) = 3
       /\ (tamper = "none" /\ Len(doc.constraints) = doc.header.n_constraints)
            => (file.ok /\ file.val.constraints = doc.constraints)
       /\ lastEdit.op = "SetSize" =>
            \A at \in {ConstraintsSizeAt(prev)} :
                (at.ok /\ at.val = lastEdit.at) => file = R1csRead(prev)

C6_Witness ==
    /\ kind = "r1cs" /\ pc = "read"
    /\ lastEdit.op = "SetSize" /\ lastEdit.val = 0 /\ lastEdit.at = marks[2] + 4
    /\ ConstraintsSizeAt(prev).ok /\ ConstraintsSizeAt(prev).val = lastEdit.at
    /\ file.ok /\ Len(file.val.constraints) >= 2
    /\ file.val.constraints = doc.constraints

\* the stream holds the magic, a version and a section count that the wtns
\* reader lets pass
WtnsPreambleOk(s) ==
    /\ Len(s) >= 12
    /\ SubSeq(s, 1, 4) = WtnsMagic
    /\ DecodeU32(s, 4) <= 2
    /\ DecodeU32(s, 8) <= 2

\* the same for the r1cs reader
R1csPreambleOk(s) ==
    /\ Len(s) >= 12
    /\ SubSeq(s, 1, 4) = R1csMagic
    /\ DecodeU32(s, 4) = 1

\* C7: WtnsFile::read succeeds only on a Header section of declared length
\* 4 + FS + 4 and a Witness section of declared length witness_len * FS, and
\* then returns witness_len elements; a Header or Witness record with another
\* declared length is rejected with the section-size error.
C7_WtnsSectionSizes ==
    (kind = "wtns" /\ pc = "read")
    => /\ file.ok =>
            /\ ReadU64(data, 16).val = U64(4 + FS + 4)
            /\ ReadU64(data, 12 + 12 + (4 + FS + 4) + 4).val
                    = U64(file.val.header.witness_len * FS)
            /\ Len(file.val.witness) = file.val.header.witness_len
       /\ (WtnsPreambleOk(data) /\ Len(data) >= 24 /\ DecodeU32(data, 12) = 1
                /\ ReadU64(data, 16).val # U64(4 + FS + 4))
            => (~file.ok /\ file.err = "InvalidHeaderSectionSize")
       /\ \A h \in {WtnsHeaderRead(data, 12)} :
            (WtnsPreambleOk(data) /\ h.ok /\ Len(data) >= h.pos + 12
                /\ DecodeU32(data, h.pos) = 2
                /\ ReadU64(data, h.pos + 4).val # U64(h.val.witness_len * FS))
            => (~file.ok /\ file.err = "InvalidWitnessSectionSize")

C7_Witness ==
    /\ kind = "wtns" /\ pc = "read"
    /\ lastEdit.op = "SetSize" /\ lastEdit.at = marks[2] + 4 /\ lastEdit.val = 0
    /\ WtnsRead(prev).ok /\ Len(WtnsRead(prev).val.witness) >= 1
    /\ ~file.ok /\ file.err = "InvalidWitnessSectionSize"

\* C8: in both readers an input that passes the magic, version and section
\* count steps and whose header declares a field size other than FS fails with
\* the wrong-field-size error as soon as that word is read, whatever follows it.
C8_FieldSizeEager ==
    pc = "read"
    => /\ kind = "r1cs" =>
            \A sec \in {SectionHeaderRead(data, 12)} :
                (R1csPreambleOk(data) /\ sec.ok /\ Len(data) >= sec.pos + 4
                    /\ DecodeU32(data, sec.pos) # FS)
                => (~file.ok /\ file.err = "WrongFieldSize" /\ file.pos = sec.pos + 4)
       /\ (kind = "wtns" /\ WtnsPreambleOk(data) /\ Len(data) >= 28
                /\ DecodeU32(data, 12) = 1
                /\ ReadU64(data, 16).val = U64(4 + FS + 4)
                /\ DecodeU32(data, 24) # FS)
            => (~file.ok /\ file.err = "WrongFieldSize")

\* the document's counter agrees with its vector
DocCounted ==
    IF kind = "r1cs"
    THEN Len(doc.constraints) = doc.header.n_constraints
    ELSE Len(doc.witness) = doc.header.witness_len

\* C9 as stated: read of a strict prefix of what write produces from a
\* document (R1CS with n_constraints constraints, WTNS with witness_len
\* elements) fails with the unexpected-end-of-stream error.
C9_TruncationIsEof ==
    (pc = "read" /\ lastEdit.op = "Truncate" /\ DocCounted)
    => (~file.ok /\ file.err = "UnexpectedEof")

\* C9 amended: the same, for the WTNS documents whose version is at most 2.
C9_TruncationIsEofSupported ==
    (pc = "read" /\ lastEdit.op = "Truncate" /\ DocCounted
        /\ (kind = "wtns" => doc.version <= 2))
    => (~file.ok /\ file.err = "UnexpectedEof")

C9_Witness ==
    /\ kind = "r1cs" /\ pc = "read" /\ lastEdit.op = "Truncate" /\ DocCounted
    /\ Len(doc.map) >= 2
    /\ lastEdit.at = Len(prev) - 1
    /\ ~file.ok /\ file.err = "UnexpectedEof"

\* C10: R1csFile::read rejects every version word other than 1 with the
\* unsupported-version error; WtnsFile::read rejects with it exactly the
\* version words above 2, and a document it returns stores the version read.
C10_VersionGating ==
    (pc = "read" /\ Len(data) >= 8)
    => /\ (kind = "r1cs" /\ SubSeq(data, 1, 4) = R1csMagic /\ DecodeU32(data, 4) # 1)
            => (~file.ok /\ file.err = "UnsupportedVersion")
       /\ (kind = "wtns" /\ SubSeq(data, 1, 4) = WtnsMagic)
            => /\ (~file.ok /\ file.err = "UnsupportedVersion") <=> DecodeU32(data, 4) > 2
               /\ file.ok => file.val.version = DecodeU32(data, 4)

C10_Witness ==
    /\ kind = "wtns" /\ pc = "read" /\ lastEdit.op = "SetVersion" /\ lastEdit.val = 2
    /\ DecodeU32(data, 4) = 2
    /\ file.ok /\ file.val.version = 2

\* C11: WtnsFile::write always emits the section count 2; WtnsFile::read of an
\* input that passes the magic and version steps fails with the
\* too-many-sections error exactly when the section-count word is above 2, and
\* it does so at the end of that word, whatever follows it, even nothing.
C11_WtnsSectionCount ==
    kind = "wtns"
    => /\ (pc \in {"bytes", "read", "rewritten"} /\ tamper = "none")
            => (Len(data) >= 12 /\ DecodeU32(data, 8) = 2)
       /\ (pc = "read" /\ Len(data) >= 12 /\ SubSeq(data, 1, 4) = WtnsMagic
                /\ DecodeU32(data, 4) <= 2)
            => /\ (~file.ok /\ file.err = "TooManySections") <=> DecodeU32(data, 8) > 2
               /\ DecodeU32(data, 8) > 2 => file.pos = 12

C11_Witness ==
    /\ kind = "wtns" /\ pc = "read" /\ lastEdit.op = "CutAfterEdit"
    /\ Len(data) = 12 /\ DecodeU32(data, 8) = 3
    /\ ~file.ok /\ file.err = "TooManySections" /\ file.pos = 12

\* the section-count words tried in place of the one in the stream
CountChoices == 0..(R1csNumSections + 2)

\* C12: R1csFile::read gives the same outcome, the same document or the same
\* error at the same place, on two inputs that differ only in the section-count
\* word; no value of that word is rejected.
C12_R1csCountAdvisory ==
    (kind = "r1cs" /\ pc = "read")
    => /\ Len(data) >= 12 =>
            \A n \in CountChoices : R1csRead(Overwrite(data, 8, WriteU32(n))) = file
       /\ lastEdit.op = "SetSectionCount" => file = R1csRead(prev)

C12_Witness ==
    /\ kind = "r1cs" /\ pc = "read"
    /\ lastEdit.op = "SetSectionCount" /\ lastEdit.val = 4 /\ DecodeU32(data, 8) = 4
    /\ R1csRead(prev).ok
    /\ file.ok /\ file.val = doc /\ Len(doc.constraints) >= 1

\* the tags of the records at the given offsets
TagsAt(s, starts) == [i \in DOMAIN starts |-> DecodeU32(s, starts[i])]

\* C13: a document returned by R1csFile::read was decoded from a record tagged
\* Header (1), then one tagged Constraint (2), then one tagged
\* Wire2LabelIdMap (3).
C13_SectionTyping ==
    (kind = "r1cs" /\ pc = "read" /\ file.ok)
    => \A starts \in {R1csSectionStarts(data)} :
          starts.ok /\ TagsAt(data, starts.val) = <<1, 2, 3>>

\* the records of a stream taken at their word from offset acc.pos on: a tag,
\* a length, and as many content bytes as the length says, one after another
\* up to the last byte; acc is the Ok of the records passed so far
RECURSIVE WalkRecords(_, _)
WalkRecords(s, acc) ==
    IF acc.pos = Len(s) THEN acc ELSE
    Try(ReadU32(s, acc.pos), LAMBDA tag :
    Try(ReadU64(s, tag.pos), LAMBDA size :
    IF size.val.hi > 0 \/ size.pos + size.val.lo > Len(s)
    THEN Err("ContentShort", size.pos) ELSE
    Try(Ok(Append(acc.val, [tag |-> tag.val, size |-> size.val.lo]),
           size.pos + size.val.lo),
        LAMBDA passed : WalkRecords(s, passed))))

\* 3*4 plus (4 + FS) per entry, summed over the constraints
RECURSIVE EntriesSize(_)
EntriesSize(cs) ==
    IF cs = <<>> THEN 0
    ELSE 3 * 4 + (4 + FS) * (Len(Head(cs)[1]) + Len(Head(cs)[2]) + Len(Head(cs)[3]))
            + EntriesSize(Tail(cs))

\* the section records write is to emit for a document
ExpectedRecords(k, d) ==
    IF k = "r1cs"
    THEN << [tag |-> 1, size |-> 6 * 4 + 8 + FS],
            [tag |-> 2, size |-> EntriesSize(d.constraints)],
            [tag |-> 3, size |-> 8 * Len(d.map)] >>
    ELSE << [tag |-> 1, size |-> 4 + FS + 4],
            [tag |-> 2, size |-> FS * Len(d.witness)] >>

\* after the 12 bytes of magic, version and count the stream is exactly the
\* expected records, each followed by as many bytes as it declares
RecordsExact(k, d, s) ==
    /\ Len(s) >= 12
    /\ \A w \in {WalkRecords(s, Ok(<<>>, 12))} :
          w.ok /\ w.pos = Len(s) /\ w.val = ExpectedRecords(k, d)

\* C14: what R1csFile::write and WtnsFile::write emit for a document, built by
\* a caller or returned by read, is after the first 12 bytes a run of section
\* records, tag then 8-byte length then content, whose declared lengths are the
\* numbers of content bytes written: Header 6*4 + 8 + FS, Constraints 3*4 per
\* constraint plus 4 + FS per entry, WireMap 8 per entry; WTNS Header
\* 4 + FS + 4, Witness FS per element.
C14_WrittenLengthsExact ==
    /\ (pc \in {"bytes", "read", "rewritten"} /\ tamper = "none")
            => RecordsExact(kind, doc, data)
    /\ pc = "rewritten" => RecordsExact(kind, file.val, out)

C14_Witness ==
    /\ kind = "r1cs" /\ pc = "bytes" /\ tamper = "none"
    /\ Len(doc.constraints) >= 2 /\ Len(doc.map) >= 1
    /\ RecordsExact(kind, doc, data)
    /\ WalkRecords(data, Ok(<<>>, 12)).val[2].size > 3 * 4 * Len(doc.constraints)

\* the scan as C15 words it: a record with a recognised tag is returned with
\* the 12 bytes of its tag and length consumed; an unknown record is passed
\* over by 12 bytes plus its declared length when that many bytes remain, and
\* the scan goes on behind it; an unknown record declaring more than what
\* remains, or fewer than 12 bytes left, is the end-of-stream error
RECURSIVE ScanExpected(_, _)
ScanExpected(s, p) ==
    IF p + 12 > Len(s) THEN Err("UnexpectedEof", Len(s)) ELSE
    Try(Ok([tag |-> DecodeU32(s, p),
            size |-> [lo |-> DecodeU32(s, p + 4), hi |-> DecodeU32(s, p + 8)]], p + 12),
        LAMBDA rec :
    IF rec.val.tag \in 1..3
    THEN Ok([ty |-> CASE rec.val.tag = 1 -> "Header" [] rec.val.tag = 2 -> "Constraint"
                      [] OTHER -> "Wire2LabelIdMap",
             size |-> rec.val.size], rec.pos)
    ELSE IF rec.val.size.hi > 0 \/ rec.val.size.lo > Len(s) - rec.pos
    THEN Err("UnexpectedEof", Len(s))
    ELSE ScanExpected(s, rec.pos + rec.val.size.lo))

\* C15: from every offset of every input, SectionHeader::read returns: with
\* a recognised record, found after passing over each unknown record by
\* exactly its 12 header bytes and its declared content, and read from bytes
\* that are all inside the input; or with the end-of-stream error, when the
\* input ends or an unknown record declares more content than remains.
C15_SkipTerminates ==
    (kind = "r1cs" /\ pc = "read")
    => \A p \in 0..Len(data) :
          \A got \in {SectionHeaderRead(data, p)}, want \in {ScanExpected(data, p)} :
              /\ got.ok = want.ok
              /\ got.ok => /\ got = want
                           /\ got.pos >= p + 12 /\ got.pos <= Len(data)
                           /\ DecodeU32(data, got.pos - 12) \in 1..3
              /\ ~got.ok => got.err = "UnexpectedEof"

C15_Witness ==
    /\ kind = "r1cs" /\ pc = "read" /\ lastEdit.op = "InjectLong"
    /\ R1csRead(prev).ok
    /\ DecodeU32(data, lastEdit.at) \notin 1..3
    /\ DecodeU32(data, lastEdit.at + 4) > Len(data) - (lastEdit.at + 12)
    /\ ~SectionHeaderRead(data, lastEdit.at).ok
    /\ SectionHeaderRead(data, lastEdit.at).err = "UnexpectedEof"
    /\ ~file.ok /\ file.err = "UnexpectedEof"

====
